---- MODULE Spec2Model ----
(***************************************************************************)
(* BeeVision: the hyperparameter search, best-configuration selection,     *)
(* persistence and retraining cells of the three notebooks                 *)
(*   res18 : src/src/Resnet18_model.ipynb                                  *)
(*   d201  : src/unnamed/part_000   (DenseNet201)                          *)
(*   eb0   : src/unnamed/part_001   (EfficientNet-B0)                      *)
(* A notebook is a sequence of cells run top to bottom; an uncaught        *)
(* exception stops the run at the failing cell, the kernel keeps its       *)
(* variables, and the user may go on with the cell below.                  *)
(***************************************************************************)
EXTENDS Integers, Sequences, FiniteSets, TLC

VARIABLES
    nb,                    \* which notebook this session runs
    choices,               \* the literals of the grid-definition cell
    pc,                    \* the cell the session is at
    halted,                \* TRUE after an uncaught exception stopped the run
    err,                   \* the last uncaught exception ("" when none)
    hyperparameter_combos, \* list(itertools.product(...))
    results,               \* the results accumulator
    ti, ci,                \* position of the two nested for loops
    phase,                 \* inside the loop cell: "head" or "training"
    iterations,            \* loop iterations that ran to their end
    train_dataloader,      \* <<>> when unbound, else <<[transform, batch_size]>>
    val_dataloader,        \* batch size of the validation loader
    save_dir,              \* <<>> when unbound, else <<directory>>
    writers_open,          \* SummaryWriter objects opened and not closed
    results_df,            \* <<>> when unbound, else <<sequence of rows>>
    best_params,           \* <<>> when unbound, else <<dict>>
    best_file,             \* best_params_<backbone>.json: <<>> or <<document>>
    csv_file,              \* hyperparameter_testing_*.csv: <<>> or <<rows>>
    retrained,             \* <<>> or <<arguments of the retrain call>>
    test_file,             \* test_results_<backbone>.json: <<>> or <<document>>
    resumed,               \* TRUE once the user went on past a failed cell
    supplied,              \* TRUE once a configuration came from outside the sweep
    error_prints,          \* "An error occurred during training" lines printed
    images, labels,        \* the kept annotation rows: entry i of both is row i
    X_train_val, y_train_val, X_test, y_test,   \* the first train_test_split
    X_train, y_train, X_val, y_val,             \* the second train_test_split
    split_pc,              \* the split cell: "read", "start", "first", "done" or "error"
    train_calls,           \* the train() calls made so far, in order, each "running" or "done"
    model_weights,         \* the shared model object: the train() calls that updated it in place
    evaluated,             \* the data each train() and test_step() call was given to evaluate on
    reruns,                \* cells the user executed again
    prior,                 \* <<>> or <<outputs of the earlier of two runs>>
    permutation,           \* RandomState(seed).permutation(n), for the sizes n that arise
    np_random,             \* draws taken from the global generators seeded in the seed cell
    annotations,           \* the rows of annotations.csv
    annotations_df         \* df of the data cell: <<>> when unbound, else <<its rows>>

vars == <<nb, choices, pc, halted, err, hyperparameter_combos, results, ti, ci,
          phase, iterations, train_dataloader, val_dataloader, save_dir,
          writers_open, results_df, best_params, best_file, csv_file, retrained,
          test_file, resumed, supplied, error_prints, images, labels, X_train_val,
          y_train_val, X_test, y_test, X_train, y_train, X_val, y_val, split_pc,
          train_calls, model_weights, evaluated, reruns, prior, permutation, np_random,
          annotations, annotations_df>>

\* the variables of the data-loading cell
splitVars == <<images, labels, X_train_val, y_train_val, X_test, y_test,
               X_train, y_train, X_val, y_val, split_pc>>

\* the variables of the cells from the grid definition on
sessionVars == <<nb, choices, pc, halted, err, hyperparameter_combos, results, ti, ci,
                 phase, iterations, train_dataloader, val_dataloader, save_dir,
                 writers_open, results_df, best_params, best_file, csv_file, retrained,
                 test_file, resumed, supplied, error_prints>>

\* the train() calls and the model object they share
callVars == <<train_calls, model_weights, evaluated>>

\* re-execution, the seeded generator and the annotation file
auxVars == <<reruns, prior, permutation, np_random, annotations, annotations_df>>

(***************************************************************************)
(* Bounds of the model                                                     *)
(***************************************************************************)
\* largest grid (number of points) a session enumerates
MaxGridPoints == 4
\* metric values returned by the external train() are drawn from 1..MaxMetric
MaxMetric == 2
\* the split is run on 0..MaxN kept annotation rows
MaxN == 21
\* every permutation is a possible shuffle of up to FullPermLen rows; longer inputs
\* are shuffled by a rotation or a reflected rotation
FullPermLen == 4

(***************************************************************************)
(* Python values: str, int, float (with NaN), numpy scalars, 0-dim tensors *)
(***************************************************************************)
PyStr(s)    == [ty |-> "str",      s |-> s,  n |-> 0]
PyInt(k)    == [ty |-> "int",      s |-> "", n |-> k]
PyFloat(k)  == [ty |-> "float",    s |-> "", n |-> k]
PyNaN       == [ty |-> "nan",      s |-> "", n |-> 0]
NpInt(k)    == [ty |-> "np_int",   s |-> "", n |-> k]
NpFloat(k)  == [ty |-> "np_float", s |-> "", n |-> k]
NpNaN       == [ty |-> "np_nan",   s |-> "", n |-> 0]
Tensor(k)   == [ty |-> "tensor",   s |-> "", n |-> k]

None == <<>>
Some(x) == <<x>>

IsNaN(x) == x.ty \in {"nan", "np_nan"}

\* x.item() of a numpy scalar or a tensor: the Python number
Item(x) ==
    CASE x.ty = "np_int"   -> PyInt(x.n)
      [] x.ty = "np_float" -> PyFloat(x.n)
      [] x.ty = "np_nan"   -> PyNaN
      [] x.ty = "tensor"   -> PyFloat(x.n)
      [] OTHER             -> x

(***************************************************************************)
(* The grid-definition cell                                                *)
(***************************************************************************)
Min(a, b) == IF a <= b THEN a ELSE b

\* learning rates in units of 1e-4: .001, .0001, .01
num_epochs == <<5, 10>>
lrs        == <<10, 1, 100>>
batch_size == <<16, 32, 64>>

BATCH_SIZE == 32

Notebooks == {"res18", "d201", "eb0"}

\* the name under which the grid loop records the baseline augmentation
BaselineName(n) ==
    CASE n = "res18" -> "res18_transform"
      [] n = "d201"  -> "d201_transform"
      [] n = "eb0"   -> "eb0_transform"

\* the list the outer for loop runs over
GridTransforms(n) == <<"triv_aug", BaselineName(n)>>

\* a variant that walks the three lists in step, like zip
product_zip(A, B, C) ==
    [i \in 1..(Len(A) * Len(B) * Len(C)) |->
        <<A[((i - 1) % Len(A)) + 1], B[((i - 1) % Len(B)) + 1], C[((i - 1) % Len(C)) + 1]>>]

\* itertools.product(A, B, C): the last factor varies fastest
product(A, B, C) ==
    [i \in 1..(Len(A) * Len(B) * Len(C)) |->
        <<A[((i - 1) \div (Len(B) * Len(C))) + 1],
          B[(((i - 1) \div Len(C)) % Len(B)) + 1],
          C[((i - 1) % Len(C)) + 1]>>]

Prefix(s, k) == SubSeq(s, 1, Min(k, Len(s)))

\* the choice lists of a session: the configured lists, cut to a bounded grid
ChoiceLists ==
    {[batch_size |-> Prefix(batch_size, b),
      num_epochs |-> Prefix(num_epochs, e),
      lrs        |-> Prefix(lrs, l)] :
        <<b, e, l>> \in {t \in (1..Len(batch_size)) \X (1..Len(num_epochs)) \X (1..Len(lrs)) :
                            2 * t[1] * t[2] * t[3] <= MaxGridPoints}}

\* every prefix of the configured lists, up to the configured grid itself
AllChoiceLists ==
    {[batch_size |-> Prefix(batch_size, b),
      num_epochs |-> Prefix(num_epochs, e),
      lrs        |-> Prefix(lrs, l)] :
        <<b, e, l>> \in (1..Len(batch_size)) \X (1..Len(num_epochs)) \X (1..Len(lrs))}

GridSize == Len(GridTransforms(nb)) * Len(hyperparameter_combos)

\* the grid point the nested loops are at
transform_name == GridTransforms(nb)[ti]
point == hyperparameter_combos[ci]

RunDir(t, l, b, e) == [kind |-> "run", transform |-> t, lr |-> l, batch_size |-> b, epochs |-> e]
Cwd == [kind |-> "cwd", transform |-> "", lr |-> 0, batch_size |-> 0, epochs |-> 0]

(***************************************************************************)
(* Cells                                                                   *)
(***************************************************************************)
Cells(n) ==
    CASE n = "res18" -> <<"grid_def", "grid_loop", "csv", "select", "load", "retrain", "test", "end">>
      [] n = "d201"  -> <<"grid_def", "grid_loop", "save_dir", "csv", "select", "load", "retrain", "test", "end">>
      [] n = "eb0"   -> <<"grid_def", "grid_loop", "save_dir", "csv", "select", "retrain", "test", "end">>

CellIndex(n, c) == CHOOSE i \in 1..Len(Cells(n)) : Cells(n)[i] = c

\* a variant that passes over a cell
NextCell_skip(n, c) == Cells(n)[Min(CellIndex(n, c) + 2, Len(Cells(n)))]

\* the cell below
NextCell(n, c) == Cells(n)[CellIndex(n, c) + 1]

At(c) == pc = c /\ ~halted

\* an uncaught exception: the run stops at this cell
Raise(e) == halted' = TRUE /\ err' = e /\ pc' = pc

Advance == pc' = NextCell(nb, pc) /\ halted' = FALSE /\ err' = ""


\* the data-loading cell is not part of this run
SplitIdle ==
    /\ images = <<>> /\ labels = <<>>
    /\ X_train_val = <<>> /\ y_train_val = <<>> /\ X_test = <<>> /\ y_test = <<>>
    /\ X_train = <<>> /\ y_train = <<>> /\ X_val = <<>> /\ y_val = <<>>
    /\ split_pc = "done"

\* nothing was executed again, and the seed cell and the annotation file are not part of
\* this run
AuxIdle ==
    /\ reruns = 0
    /\ prior = None
    /\ permutation = <<>>
    /\ np_random = 0
    /\ annotations = <<>>
    /\ annotations_df = None

\* the session after the model-definition cell, with the choice lists drawn from C
SessionInit(C) ==
    /\ nb \in Notebooks
    /\ choices \in C
    /\ pc = "grid_def"
    /\ halted = FALSE
    /\ err = ""
    /\ hyperparameter_combos = <<>>
    /\ results = <<>>
    /\ ti = 1
    /\ ci = 1
    /\ phase = "head"
    /\ iterations = 0
    /\ train_dataloader = None
    /\ val_dataloader = BATCH_SIZE
    /\ save_dir = None
    /\ writers_open = IF nb = "res18" THEN 1 ELSE 0
    /\ results_df = None
    /\ best_params = None
    /\ best_file = None
    /\ csv_file = None
    /\ retrained = None
    /\ test_file = None
    /\ resumed = FALSE
    /\ supplied = FALSE
    /\ error_prints = 0
    /\ train_calls = <<>>
    /\ model_weights = <<>>
    /\ evaluated = <<>>

Init == SessionInit(ChoiceLists) /\ SplitIdle /\ AuxIdle

\* the user runs the cell below the one that failed
Resume ==
    /\ halted
    /\ pc # "end"
    /\ pc' = NextCell(nb, pc)
    /\ halted' = FALSE
    /\ err' = ""
    /\ resumed' = TRUE
    /\ UNCHANGED splitVars
    /\ UNCHANGED auxVars
    /\ UNCHANGED callVars
    /\ UNCHANGED <<error_prints, nb, choices, hyperparameter_combos, results, ti, ci, phase, iterations,
                   train_dataloader, val_dataloader, save_dir, writers_open, results_df,
                   best_params, best_file, csv_file, retrained, test_file, supplied>>

(***************************************************************************)
(* Grid definition: num_epochs, lrs, batch_size, hyperparameter_combos,    *)
(* results = []                                                            *)
(***************************************************************************)
GridDef ==
    /\ At("grid_def")
    /\ hyperparameter_combos' = product(choices.batch_size, choices.num_epochs, choices.lrs)
    /\ results' = <<>>
    /\ Advance
    /\ ti' = 1 /\ ci' = 1 /\ phase' = "head"
    /\ UNCHANGED splitVars
    /\ UNCHANGED auxVars
    /\ UNCHANGED callVars
    /\ UNCHANGED <<error_prints, nb, choices, iterations, train_dataloader, val_dataloader, save_dir,
                   writers_open, results_df, best_params, best_file, csv_file, retrained,
                   test_file, resumed, supplied>>

(***************************************************************************)
(* The grid search loop                                                    *)
(***************************************************************************)
\* the augmentation pipeline of the dataset the loop pairs with a name
PipelineOf(name) == IF name = "triv_aug" THEN "triv_aug" ELSE "baseline"

\* a variant that leaves the loop after the first transform
LoopDone_early == ti > 1

\* both for statements are exhausted
LoopDone == ti > Len(GridTransforms(nb))

\* the steps of an iteration that stand before the try statement
SetupSteps == {"DataLoader", "makedirs", "SummaryWriter", "add_hparams"}

\* the last-epoch metrics a train() call that returns may report: floats for the loss
\* and the Hamming accuracy, a 0-dim tensor for the zero-one accuracy
TrainResults ==
    {[test_loss |-> PyFloat(MaxMetric + 1 - h), test_ham_acc |-> PyFloat(h),
      test_zero_one_acc |-> Tensor(h - 1)] : h \in 1..MaxMetric}

\* the row appended after a train() call that returned
SuccessRow(t, p, m) ==
    [transform |-> PyStr(t), batch_size |-> PyInt(p[1]), epochs |-> PyInt(p[2]), lr |-> PyFloat(p[3]),
     final_test_loss |-> m.test_loss, final_test_ham_acc |-> m.test_ham_acc,
     final_test_zero_one_acc |-> m.test_zero_one_acc]

\* a variant of the except clause's row that records a loss of 0 instead of NaN
FailureRow_lossZero(t, p) ==
    [transform |-> PyStr(t), batch_size |-> PyInt(p[1]), epochs |-> PyInt(p[2]), lr |-> PyFloat(p[3]),
     final_test_loss |-> PyFloat(0), final_test_ham_acc |-> PyNaN, final_test_zero_one_acc |-> PyNaN]

\* the row appended by the except clause
FailureRow(t, p) ==
    [transform |-> PyStr(t), batch_size |-> PyInt(p[1]), epochs |-> PyInt(p[2]), lr |-> PyFloat(p[3]),
     final_test_loss |-> PyNaN, final_test_ham_acc |-> PyNaN, final_test_zero_one_acc |-> PyNaN]

\* the split a data loader of the dataset cell serves
LoaderData_test(loader) == "test"

LoaderData(loader) ==
    CASE loader = "val_dataloader"  -> "val"
      [] loader = "test_dataloader" -> "test"

\* a call that was handed a loader to evaluate the model on
Evaluation(by, loader) == [by |-> by, data |-> LoaderData(loader)]

\* a train() call on the shared model object, from the moment it is entered
Call(kind, t, b, e, l, w) ==
    [kind |-> kind, transform |-> t, batch_size |-> b, epochs |-> e, lr |-> l,
     initial |-> w, status |-> "running"]

\* a variant in which a freshly built model (pretrained backbone, new head) is trained
StartWeights_fresh(w) == <<>>

\* the weights a train() call starts from: model=model_res18 hands over the one model
\* object as it is, with the weights of whatever was trained on it before
StartWeights(w) == w

\* the weights after a train() call ran on them, to its end or until it raised: the
\* optimizer updates the model's parameters in place
Trained(c) ==
    Append(c.initial, [transform |-> c.transform, batch_size |-> c.batch_size,
                       epochs |-> c.epochs, lr |-> c.lr])

\* a variant in which the loop goes on while the call is still running
Finish_detached(calls) == calls

\* the call in flight has returned or raised
Finish(calls) == [calls EXCEPT ![Len(calls)].status = "done"]

\* the two for statements move on
StepLoop ==
    /\ ci' = IF ci = Len(hyperparameter_combos) THEN 1 ELSE ci + 1
    /\ ti' = IF ci = Len(hyperparameter_combos) THEN ti + 1 ELSE ti

\* DataLoader, save_dir, makedirs, SummaryWriter, add_hparams(params, {}) all succeed
TrialSetup ==
    /\ At("grid_loop") /\ phase = "head" /\ ~LoopDone
    /\ train_dataloader' = Some([transform |-> PipelineOf(transform_name), batch_size |-> point[1]])
    /\ save_dir' = Some(RunDir(transform_name, point[3], point[1], point[2]))
    /\ writers_open' = writers_open + 1
    /\ phase' = "training"
    /\ train_calls' = Append(train_calls,
                             Call("grid", PipelineOf(transform_name), point[1], point[2],
                                  point[3], StartWeights(model_weights)))
    /\ evaluated' = Append(evaluated, Evaluation("train", "val_dataloader"))
    /\ UNCHANGED model_weights
    /\ UNCHANGED splitVars
    /\ UNCHANGED auxVars
    /\ UNCHANGED <<error_prints, nb, choices, pc, halted, err, hyperparameter_combos, results, ti, ci,
                   iterations, val_dataloader, results_df, best_params, best_file, csv_file,
                   retrained, test_file, resumed, supplied>>

\* one of the steps before the try statement raises: nothing catches it
TrialSetupRaises(step) ==
    /\ At("grid_loop") /\ phase = "head" /\ ~LoopDone
    /\ train_dataloader' =
          IF step = "DataLoader" THEN train_dataloader
          ELSE Some([transform |-> PipelineOf(transform_name), batch_size |-> point[1]])
    /\ save_dir' =
          IF step = "DataLoader" THEN save_dir
          ELSE Some(RunDir(transform_name, point[3], point[1], point[2]))
    /\ writers_open' = IF step = "add_hparams" THEN writers_open + 1 ELSE writers_open
    /\ Raise(step)
    /\ UNCHANGED splitVars
    /\ UNCHANGED auxVars
    /\ UNCHANGED callVars
    /\ UNCHANGED <<error_prints, nb, choices, hyperparameter_combos, results, ti, ci, phase, iterations,
                   val_dataloader, results_df, best_params, best_file, csv_file, retrained,
                   test_file, resumed, supplied>>

\* train() returns, the metrics are read and logged, the row is appended; finally closes the writer
TrainReturns(m) ==
    /\ At("grid_loop") /\ phase = "training"
    /\ results' = Append(results, SuccessRow(transform_name, point, m))
    /\ train_calls' = Finish(train_calls)
    /\ model_weights' = Trained(train_calls[Len(train_calls)])
    /\ UNCHANGED evaluated
    /\ writers_open' = writers_open - 1
    /\ iterations' = iterations + 1
    /\ phase' = "head"
    /\ StepLoop
    /\ UNCHANGED splitVars
    /\ UNCHANGED auxVars
    /\ UNCHANGED <<error_prints, nb, choices, pc, halted, err, hyperparameter_combos, train_dataloader,
                   val_dataloader, save_dir, results_df, best_params, best_file, csv_file,
                   retrained, test_file, resumed, supplied>>

\* a variant without the except clause: the exception leaves the loop, finally still
\* closes the writer
TrainRaises_uncaught(cause) ==
    /\ At("grid_loop") /\ phase = "training"
    /\ cause \in {"train", "metrics", "add_hparams"}
    /\ writers_open' = writers_open - 1
    /\ train_calls' = Finish(train_calls)
    /\ model_weights' = Trained(train_calls[Len(train_calls)])
    /\ UNCHANGED evaluated
    /\ Raise(cause)
    /\ UNCHANGED splitVars
    /\ UNCHANGED auxVars
    /\ UNCHANGED <<error_prints, nb, choices, hyperparameter_combos, results, ti, ci, phase,
                   iterations, train_dataloader, val_dataloader, save_dir, results_df,
                   best_params, best_file, csv_file, retrained, test_file, resumed, supplied>>

\* a variant whose except clause only prints: the failed trial leaves no row
TrainRaises_omit(cause) ==
    /\ At("grid_loop") /\ phase = "training"
    /\ cause \in {"train", "metrics", "add_hparams"}
    /\ writers_open' = writers_open - 1
    /\ train_calls' = Finish(train_calls)
    /\ model_weights' = Trained(train_calls[Len(train_calls)])
    /\ UNCHANGED evaluated
    /\ iterations' = iterations + 1
    /\ error_prints' = error_prints + 1
    /\ phase' = "head"
    /\ StepLoop
    /\ UNCHANGED splitVars
    /\ UNCHANGED auxVars
    /\ UNCHANGED <<nb, choices, pc, halted, err, hyperparameter_combos, results,
                   train_dataloader, val_dataloader, save_dir, results_df, best_params,
                   best_file, csv_file, retrained, test_file, resumed, supplied>>

\* train(), the reading of its metrics or add_hparams raises an Exception inside the try
\* statement: the except clause appends the NaN row; finally closes the writer
TrainRaises(cause) ==
    /\ At("grid_loop") /\ phase = "training"
    /\ cause \in {"train", "metrics", "add_hparams"}
    /\ results' = Append(results, FailureRow(transform_name, point))
    /\ train_calls' = Finish(train_calls)
    /\ model_weights' = Trained(train_calls[Len(train_calls)])
    /\ UNCHANGED evaluated
    /\ writers_open' = writers_open - 1
    /\ iterations' = iterations + 1
    /\ error_prints' = error_prints + 1
    /\ phase' = "head"
    /\ StepLoop
    /\ UNCHANGED splitVars
    /\ UNCHANGED auxVars
    /\ UNCHANGED <<nb, choices, pc, halted, err, hyperparameter_combos, train_dataloader,
                   val_dataloader, save_dir, results_df, best_params, best_file, csv_file,
                   retrained, test_file, resumed, supplied>>

\* pandas.DataFrame(rows): a column of Python numbers becomes a numeric column,
\* a column holding a tensor stays a column of objects
ToNumpy(x) ==
    CASE x.ty = "int"   -> NpInt(x.n)
      [] x.ty = "float" -> NpFloat(x.n)
      [] x.ty = "nan"   -> NpNaN
      [] OTHER          -> x

ObjectColumn(rows, col) == \E i \in 1..Len(rows) : rows[i][col].ty \in {"tensor", "str"}

DataFrame(rows) ==
    [i \in 1..Len(rows) |->
        [col \in DOMAIN rows[i] |->
            IF ObjectColumn(rows, col) THEN rows[i][col] ELSE ToNumpy(rows[i][col])]]

\* after the loop: results_df = pd.DataFrame(results)
LoopEnd ==
    /\ At("grid_loop") /\ phase = "head" /\ LoopDone
    /\ results_df' = Some(DataFrame(results))
    /\ Advance
    /\ UNCHANGED splitVars
    /\ UNCHANGED auxVars
    /\ UNCHANGED callVars
    /\ UNCHANGED <<error_prints, nb, choices, hyperparameter_combos, results, ti, ci, phase, iterations,
                   train_dataloader, val_dataloader, save_dir, writers_open, best_params,
                   best_file, csv_file, retrained, test_file, resumed, supplied>>

(***************************************************************************)
(* save_dir = os.getcwd()  (d201 and eb0 only)                             *)
(***************************************************************************)
SaveDirCell ==
    /\ At("save_dir")
    /\ save_dir' = Some(Cwd)
    /\ Advance
    /\ UNCHANGED splitVars
    /\ UNCHANGED auxVars
    /\ UNCHANGED callVars
    /\ UNCHANGED <<error_prints, nb, choices, hyperparameter_combos, results, ti, ci, phase, iterations,
                   train_dataloader, val_dataloader, writers_open, results_df, best_params,
                   best_file, csv_file, retrained, test_file, resumed, supplied>>

(***************************************************************************)
(* The results CSV                                                         *)
(***************************************************************************)
CsvName(n) ==
    CASE n = "res18" -> "hyperparameter_testing_Res18.csv"
      [] n = "d201"  -> "hyperparameter_testing_d201.csv"
      [] n = "eb0"   -> "hyperparameter_testing_d201.csv"

\* Series.apply(lambda x: x.item()) hands the lambda the objects of an object column
\* and Python floats for a numeric column: only tensors have .item()
ApplyItemFails(df) == \E i \in 1..Len(df) : df[i].final_test_zero_one_acc.ty # "tensor"

ApplyItem(df) ==
    [i \in 1..Len(df) |->
        [df[i] EXCEPT !.final_test_zero_one_acc = NpFloat(df[i].final_test_zero_one_acc.n)]]

CsvCell ==
    /\ At("csv")
    /\ IF Len(results) = 0
       THEN \* a frame of no rows has no columns
            /\ results_df' = Some(DataFrame(results))
            /\ Raise("KeyError")
            /\ UNCHANGED csv_file
       ELSE IF ApplyItemFails(DataFrame(results))
       THEN /\ results_df' = Some(DataFrame(results))
            /\ Raise("AttributeError")
            /\ UNCHANGED csv_file
       ELSE IF save_dir = None
       THEN /\ results_df' = Some(ApplyItem(DataFrame(results)))
            /\ Raise("NameError")
            /\ UNCHANGED csv_file
       ELSE /\ results_df' = Some(ApplyItem(DataFrame(results)))
            /\ csv_file' = Some([dir |-> save_dir[1], name |-> CsvName(nb),
                                 rows |-> ApplyItem(DataFrame(results))])
            /\ Advance
    /\ UNCHANGED splitVars
    /\ UNCHANGED auxVars
    /\ UNCHANGED callVars
    /\ UNCHANGED <<error_prints, nb, choices, hyperparameter_combos, results, ti, ci, phase, iterations,
                   train_dataloader, val_dataloader, save_dir, writers_open, best_params,
                   best_file, retrained, test_file, resumed, supplied>>

(***************************************************************************)
(* json.dump / json.load of the flat best_params dict                      *)
(***************************************************************************)
\* the keys of the best_params dict literal, in insertion order
BestKeys == <<"transform", "batch_size", "epochs", "lr", "final_test_loss",
              "final_test_ham_acc", "final_test_zero_one_acc">>

\* a variant that writes a float without its fraction part
JsonEncode_noFraction(x) ==
    CASE x.ty = "str"   -> [lit |-> "string",   text |-> x.s, n |-> 0]
      [] x.ty = "int"   -> [lit |-> "integer",  text |-> "",  n |-> x.n]
      [] x.ty = "float" -> [lit |-> "integer",  text |-> "",  n |-> x.n]
      [] x.ty = "nan"   -> [lit |-> "NaN",      text |-> "",  n |-> 0]

\* the JSON literal json.dump writes for a Python value
JsonEncode(x) ==
    CASE x.ty = "str"   -> [lit |-> "string",   text |-> x.s, n |-> 0]
      [] x.ty = "int"   -> [lit |-> "integer",  text |-> "",  n |-> x.n]
      [] x.ty = "float" -> [lit |-> "fraction", text |-> "",  n |-> x.n]
      [] x.ty = "nan"   -> [lit |-> "NaN",      text |-> "",  n |-> 0]

\* the Python value json.load builds from a JSON literal
JsonDecode(t) ==
    CASE t.lit = "string"   -> PyStr(t.text)
      [] t.lit = "integer"  -> PyInt(t.n)
      [] t.lit = "fraction" -> PyFloat(t.n)
      [] t.lit = "NaN"      -> PyNaN

\* the document: the members in the dict's order
JsonDump(d) == [i \in 1..Len(BestKeys) |-> [key |-> BestKeys[i], value |-> JsonEncode(d[BestKeys[i]])]]

\* the dict: one entry per member name, the last member of a name winning
JsonLoad(doc) ==
    [k \in {doc[i].key : i \in 1..Len(doc)} |->
        JsonDecode(doc[CHOOSE i \in 1..Len(doc) :
                           /\ doc[i].key = k
                           /\ \A j \in 1..Len(doc) : doc[j].key = k => j <= i].value)]

\* filepath of the selection cell
BestName(n) ==
    CASE n = "res18" -> "best_params_res18.json"
      [] n = "d201"  -> "best_params_d201.json"
      [] n = "eb0"   -> "best_params_eb0.json"

(***************************************************************************)
(* Best-configuration selection                                            *)
(***************************************************************************)
\* a variant that does not skip NaN
ValidRows_all(df) == 1..Len(df)

\* the labels of the rows whose final_test_ham_acc is not NaN
ValidRows(df) == {i \in 1..Len(df) : ~IsNaN(df[i].final_test_ham_acc)}

\* a variant that takes the minimum (idxmin)
idxmax_min(df) ==
    CHOOSE i \in ValidRows(df) :
        /\ \A j \in ValidRows(df) : df[i].final_test_ham_acc.n <= df[j].final_test_ham_acc.n
        /\ \A j \in ValidRows(df) :
              df[j].final_test_ham_acc.n = df[i].final_test_ham_acc.n => i <= j

\* a variant that returns the last label of the maximum
idxmax_last(df) ==
    CHOOSE i \in ValidRows(df) :
        /\ \A j \in ValidRows(df) : df[j].final_test_ham_acc.n <= df[i].final_test_ham_acc.n
        /\ \A j \in ValidRows(df) :
              df[j].final_test_ham_acc.n = df[i].final_test_ham_acc.n => j <= i

\* Series.idxmax(): NaN skipped, the first label of the maximum
idxmax(df) ==
    CHOOSE i \in ValidRows(df) :
        /\ \A j \in ValidRows(df) : df[j].final_test_ham_acc.n <= df[i].final_test_ham_acc.n
        /\ \A j \in ValidRows(df) :
              df[j].final_test_ham_acc.n = df[i].final_test_ham_acc.n => i <= j

\* the best_params dict literal
BestParamsOf(best_row) ==
    [transform               |-> best_row.transform,
     batch_size              |-> Item(best_row.batch_size),
     epochs                  |-> Item(best_row.epochs),
     lr                      |-> Item(best_row.lr),
     final_test_loss         |-> Item(best_row.final_test_loss),
     final_test_ham_acc      |-> Item(best_row.final_test_ham_acc),
     final_test_zero_one_acc |-> Item(best_row.final_test_zero_one_acc)]

SelectCell ==
    /\ At("select")
    /\ IF results_df = None
       THEN Raise("NameError") /\ UNCHANGED <<best_params, best_file>>
       ELSE IF Len(results_df[1]) = 0
       THEN Raise("KeyError") /\ UNCHANGED <<best_params, best_file>>
       ELSE IF ValidRows(results_df[1]) = {}
       THEN \* idxmax of an all-NaN column names no row
            Raise("KeyError") /\ UNCHANGED <<best_params, best_file>>
       ELSE /\ best_params' = Some(BestParamsOf(results_df[1][idxmax(results_df[1])]))
            /\ best_file' = Some(JsonDump(BestParamsOf(results_df[1][idxmax(results_df[1])])))
            /\ Advance
    /\ UNCHANGED splitVars
    /\ UNCHANGED auxVars
    /\ UNCHANGED callVars
    /\ UNCHANGED <<error_prints, nb, choices, hyperparameter_combos, results, ti, ci, phase, iterations,
                   train_dataloader, val_dataloader, save_dir, writers_open, results_df,
                   csv_file, retrained, test_file, resumed, supplied>>

(***************************************************************************)
(* A Best Configuration that comes from outside the sweep: the JSON file   *)
(* of an earlier or edited run (res18, d201), or, where the notebook has   *)
(* no load cell (eb0), the best_params its retrain cell reads              *)
(***************************************************************************)
TransformNames == {"res18_transform", "d201_transform", "unknown_transform"}

ExternalConfigs ==
    {[transform               |-> PyStr(t),
      batch_size              |-> PyInt(batch_size[1]),
      epochs                  |-> PyInt(num_epochs[1]),
      lr                      |-> PyFloat(lrs[1]),
      final_test_loss         |-> PyFloat(1),
      final_test_ham_acc      |-> PyFloat(1),
      final_test_zero_one_acc |-> PyFloat(0)] : t \in TransformNames}

ExternalConfig(cfg) ==
    /\ ~supplied
    /\ At(IF nb = "eb0" THEN "retrain" ELSE "load")
    /\ supplied' = TRUE
    /\ IF nb = "eb0"
       THEN best_params' = Some(cfg) /\ UNCHANGED best_file
       ELSE best_file' = Some(JsonDump(cfg)) /\ UNCHANGED best_params
    /\ UNCHANGED splitVars
    /\ UNCHANGED auxVars
    /\ UNCHANGED callVars
    /\ UNCHANGED <<error_prints, nb, choices, pc, halted, err, hyperparameter_combos, results, ti, ci, phase,
                   iterations, train_dataloader, val_dataloader, save_dir, writers_open,
                   results_df, csv_file, retrained, test_file, resumed>>

(***************************************************************************)
(* Load best hyperparameters (res18 and d201 only)                         *)
(***************************************************************************)
\* the branch the if / elif chain of the load cell takes: both notebooks test the
\* same two literals
GuardBranch(best_transform) ==
    IF best_transform = "triv_aug" THEN "triv_aug"
    ELSE IF best_transform = "res18_transform" THEN "baseline"
    ELSE "unknown"

LoadCell ==
    /\ At("load")
    /\ IF best_file = None
       THEN Raise("FileNotFoundError")
            /\ UNCHANGED <<best_params, train_dataloader, val_dataloader>>
       ELSE /\ best_params' = Some(JsonLoad(best_file[1]))
            /\ IF GuardBranch(JsonLoad(best_file[1]).transform.s) = "unknown"
               THEN Raise("ValueError") /\ UNCHANGED <<train_dataloader, val_dataloader>>
               ELSE /\ train_dataloader' =
                          Some([transform  |-> GuardBranch(JsonLoad(best_file[1]).transform.s),
                                batch_size |-> JsonLoad(best_file[1]).batch_size.n])
                    /\ val_dataloader' = JsonLoad(best_file[1]).batch_size.n
                    /\ Advance
    /\ UNCHANGED splitVars
    /\ UNCHANGED auxVars
    /\ UNCHANGED callVars
    /\ UNCHANGED <<error_prints, nb, choices, hyperparameter_combos, results, ti, ci, phase, iterations,
                   save_dir, writers_open, results_df, best_file, csv_file, retrained,
                   test_file, resumed, supplied>>

(***************************************************************************)
(* Train with best hyperparameters                                         *)
(***************************************************************************)
RetrainCell(outcome) ==
    /\ At("retrain")
    /\ IF best_params = None \/ train_dataloader = None
       THEN Raise("NameError") /\ UNCHANGED <<retrained, train_calls, model_weights, evaluated>>
       ELSE /\ retrained' = Some([transform  |-> train_dataloader[1].transform,
                                  batch_size |-> train_dataloader[1].batch_size,
                                  val_batch  |-> val_dataloader,
                                  epochs     |-> best_params[1].epochs.n,
                                  lr         |-> best_params[1].lr.n])
            /\ train_calls' =
                  Finish(Append(train_calls,
                                Call("retrain", train_dataloader[1].transform,
                                     train_dataloader[1].batch_size, best_params[1].epochs.n,
                                     best_params[1].lr.n, StartWeights(model_weights))))
            /\ model_weights' =
                  Trained(Call("retrain", train_dataloader[1].transform,
                               train_dataloader[1].batch_size, best_params[1].epochs.n,
                               best_params[1].lr.n, StartWeights(model_weights)))
            /\ evaluated' = Append(evaluated, Evaluation("train", "val_dataloader"))
            /\ IF outcome = "returns" THEN Advance ELSE Raise("train")
    /\ UNCHANGED splitVars
    /\ UNCHANGED auxVars
    /\ UNCHANGED <<error_prints, nb, choices, hyperparameter_combos, results, ti, ci, phase, iterations,
                   train_dataloader, val_dataloader, save_dir, writers_open, results_df,
                   best_params, best_file, csv_file, test_file, resumed, supplied>>

(***************************************************************************)
(* Final testing on the held-out test set                                  *)
(***************************************************************************)
TestName(n) ==
    CASE n = "res18" -> "test_results_res18.json"
      [] n = "d201"  -> "test_results_d201.json"
      [] n = "eb0"   -> "test_results_eb0.json"

TestCell(outcome) ==
    /\ At("test")
    /\ IF outcome = "raises"
       THEN Raise("test_step") /\ UNCHANGED test_file
       ELSE IF save_dir = None
       THEN Raise("NameError") /\ UNCHANGED test_file
       ELSE /\ test_file' = Some([dir |-> save_dir[1], name |-> TestName(nb)])
            /\ Advance
    /\ UNCHANGED splitVars
    /\ UNCHANGED auxVars
    /\ UNCHANGED <<train_calls, model_weights>>
    /\ evaluated' = Append(evaluated, Evaluation("test_step", "test_dataloader"))
    /\ UNCHANGED <<error_prints, nb, choices, hyperparameter_combos, results, ti, ci, phase, iterations,
                   train_dataloader, val_dataloader, save_dir, writers_open, results_df,
                   best_params, best_file, csv_file, retrained, resumed, supplied>>

Next ==
    \/ GridDef
    \/ TrialSetup
    \/ \E step \in SetupSteps : TrialSetupRaises(step)
    \/ \E m \in TrainResults : TrainReturns(m)
    \/ \E cause \in {"train", "metrics", "add_hparams"} : TrainRaises(cause)
    \/ LoopEnd
    \/ SaveDirCell
    \/ CsvCell
    \/ SelectCell
    \/ \E cfg \in ExternalConfigs : ExternalConfig(cfg)
    \/ LoadCell
    \/ \E outcome \in {"returns", "raises"} : RetrainCell(outcome)
    \/ \E outcome \in {"returns", "raises"} : TestCell(outcome)
    \/ Resume

Spec == Init /\ [][Next]_vars

\* the steps the notebook takes by itself when it is run top to bottom: every cell is
\* started once the one above ran to its end, and every call returns or raises
CellStep ==
    \/ GridDef
    \/ TrialSetup
    \/ \E step \in SetupSteps : TrialSetupRaises(step)
    \/ \E m \in TrainResults : TrainReturns(m)
    \/ \E cause \in {"train", "metrics", "add_hparams"} : TrainRaises(cause)
    \/ LoopEnd
    \/ SaveDirCell
    \/ CsvCell
    \/ SelectCell
    \/ LoadCell
    \/ \E outcome \in {"returns", "raises"} : RetrainCell(outcome)
    \/ \E outcome \in {"returns", "raises"} : TestCell(outcome)

\* a grid of one point per transform
InitFair ==
    /\ SessionInit({[batch_size |-> Prefix(batch_size, 1),
                     num_epochs |-> Prefix(num_epochs, 1),
                     lrs        |-> Prefix(lrs, 1)]})
    /\ SplitIdle
    /\ AuxIdle

SpecFair == InitFair /\ [][Next]_vars /\ WF_vars(CellStep)

(***************************************************************************)
(* The grid enumeration alone: every trial fails, as with an always-failing *)
(* training routine, so a run is the enumeration of one grid               *)
(***************************************************************************)
InitGrid == SessionInit(AllChoiceLists) /\ SplitIdle /\ AuxIdle

NextGrid ==
    \/ GridDef
    \/ TrialSetup
    \/ TrainRaises("train")
    \/ LoopEnd

SpecGrid == InitGrid /\ [][NextGrid]_vars

(***************************************************************************)
(* The data-loading cell: the two train_test_split calls                   *)
(***************************************************************************)
\* test_size = 1/TestDen for the first call, 1/ValDen for the second
TestDen == 10
ValDen == 9

\* the permutations of 1..n
AllPermutations(n) ==
    {p \in [1..n -> 1..n] : \A i, j \in 1..n : i # j => p[i] # p[j]}

Rotation(n, k, reflected) ==
    [i \in 1..n |-> IF reflected THEN ((k + n - i) % n) + 1 ELSE ((i - 1 + k) % n) + 1]

\* rng.permutation(n) for the seeded generator: one of these
ShufflePerms(n) ==
    IF n <= FullPermLen THEN AllPermutations(n)
    ELSE {Rotation(n, k, r) : k \in 0..(n - 1), r \in BOOLEAN}

\* a variant that rounds down
n_test_floor(n, den) == n \div den

\* ceil(test_size * n_samples) for test_size = 1/den
n_test(n, den) == (n + den - 1) \div den

\* train_size is None: the complement
n_train(n, den) == n - n_test(n, den)

\* a[indices]
Indexing(a, indices) == [i \in 1..Len(indices) |-> a[indices[i]]]

\* a variant whose train slice starts one index early
train_test_split_overlap(a, den, perm) ==
    [train |-> Indexing(a, SubSeq(perm, n_test(Len(a), den), Len(a))),
     test  |-> Indexing(a, SubSeq(perm, 1, n_test(Len(a), den)))]

\* train_test_split(a, test_size=1/den): ind_test = permutation[:n_test],
\* ind_train = permutation[n_test:n_test + n_train]
train_test_split(a, den, perm) ==
    [train |-> Indexing(a, SubSeq(perm, n_test(Len(a), den) + 1, Len(a))),
     test  |-> Indexing(a, SubSeq(perm, 1, n_test(Len(a), den)))]

\* the kept rows, row i standing for its image and for its label vector
InitSplit ==
    /\ SessionInit({[batch_size |-> batch_size, num_epochs |-> num_epochs, lrs |-> lrs]})
    /\ nb = "res18"
    /\ images \in {[i \in 1..n |-> i] : n \in 0..MaxN}
    /\ labels = images
    /\ X_train_val = <<>> /\ y_train_val = <<>> /\ X_test = <<>> /\ y_test = <<>>
    /\ X_train = <<>> /\ y_train = <<>> /\ X_val = <<>> /\ y_val = <<>>
    /\ split_pc = "start"
    /\ AuxIdle

\* X_train_val, X_test, y_train_val, y_test = train_test_split(images, labels, test_size=1/10, ...)
FirstSplit(perm) ==
    /\ split_pc = "start"
    /\ perm \in ShufflePerms(Len(images))
    /\ IF n_train(Len(images), TestDen) = 0
       THEN \* ValueError: the resulting train set will be empty
            /\ split_pc' = "error"
            /\ UNCHANGED <<X_train_val, y_train_val, X_test, y_test>>
       ELSE /\ X_train_val' = train_test_split(images, TestDen, perm).train
            /\ X_test' = train_test_split(images, TestDen, perm).test
            /\ y_train_val' = train_test_split(labels, TestDen, perm).train
            /\ y_test' = train_test_split(labels, TestDen, perm).test
            /\ split_pc' = "first"
    /\ UNCHANGED <<images, labels, X_train, y_train, X_val, y_val>>
    /\ UNCHANGED sessionVars
    /\ UNCHANGED callVars
    /\ UNCHANGED auxVars

\* X_train, X_val, y_train, y_val = train_test_split(X_train_val, y_train_val, test_size=1/9, ...)
SecondSplit(perm) ==
    /\ split_pc = "first"
    /\ perm \in ShufflePerms(Len(X_train_val))
    /\ IF n_train(Len(X_train_val), ValDen) = 0
       THEN /\ split_pc' = "error"
            /\ UNCHANGED <<X_train, y_train, X_val, y_val>>
       ELSE /\ X_train' = train_test_split(X_train_val, ValDen, perm).train
            /\ X_val' = train_test_split(X_train_val, ValDen, perm).test
            /\ y_train' = train_test_split(y_train_val, ValDen, perm).train
            /\ y_val' = train_test_split(y_train_val, ValDen, perm).test
            /\ split_pc' = "done"
    /\ UNCHANGED <<images, labels, X_train_val, y_train_val, X_test, y_test>>
    /\ UNCHANGED sessionVars
    /\ UNCHANGED callVars
    /\ UNCHANGED auxVars

NextSplit ==
    \/ \E perm \in ShufflePerms(Len(images)) : FirstSplit(perm)
    \/ \E perm \in ShufflePerms(Len(X_train_val)) : SecondSplit(perm)

SpecSplit == InitSplit /\ [][NextSplit]_vars

(***************************************************************************)
(* The split cell executed twice in one session                            *)
(***************************************************************************)
\* draws the session may take from the global generators between two runs
MaxDraws == 1
\* the split is run twice on 0..MaxResplitN rows
MaxResplitN == 12

\* the outputs of RandomState(seed).permutation for the two sizes a split of n rows asks for
SeededTables(n) ==
    {f \in [{n, n_train(n, TestDen)} -> ShufflePerms(n) \cup ShufflePerms(n_train(n, TestDen))] :
        \A k \in {n, n_train(n, TestDen)} : f[k] \in ShufflePerms(k)}

\* a variant for random_state=None: the shuffle comes from the global generator, whose
\* state moves with every draw
rng_permutation_global(n) ==
    [i \in 1..n |-> permutation[n][((i - 1 + np_random) % n) + 1]]

\* random_state=seed: each call builds a new generator from the seed and shuffles with it
rng_permutation(n) == permutation[n]

InitResplit ==
    /\ SessionInit({[batch_size |-> batch_size, num_epochs |-> num_epochs, lrs |-> lrs]})
    /\ nb = "res18"
    /\ images \in {[i \in 1..n |-> i] : n \in 0..MaxResplitN}
    /\ labels = images
    /\ X_train_val = <<>> /\ y_train_val = <<>> /\ X_test = <<>> /\ y_test = <<>>
    /\ X_train = <<>> /\ y_train = <<>> /\ X_val = <<>> /\ y_val = <<>>
    /\ split_pc = "start"
    /\ reruns = 0
    /\ prior = None
    /\ permutation \in SeededTables(Len(images))
    /\ np_random = 0
    /\ annotations = <<>>
    /\ annotations_df = None

\* what the split cell leaves bound
SplitOutputs ==
    [state |-> split_pc, X_train |-> X_train, y_train |-> y_train, X_val |-> X_val,
     y_val |-> y_val, X_test |-> X_test, y_test |-> y_test]

\* other cells draw from the generators seeded by np.random.seed, random.seed, torch.manual_seed
DrawGlobal ==
    /\ np_random < MaxDraws
    /\ np_random' = np_random + 1
    /\ UNCHANGED <<reruns, prior, permutation, annotations, annotations_df>>
    /\ UNCHANGED splitVars
    /\ UNCHANGED sessionVars
    /\ UNCHANGED callVars

\* the split is executed once more on the same images and labels
RerunSplit ==
    /\ split_pc \in {"done", "error"}
    /\ prior = None
    /\ prior' = Some(SplitOutputs)
    /\ reruns' = reruns + 1
    /\ split_pc' = "start"
    /\ UNCHANGED <<images, labels, X_train_val, y_train_val, X_test, y_test,
                   X_train, y_train, X_val, y_val>>
    /\ UNCHANGED <<permutation, np_random, annotations, annotations_df>>
    /\ UNCHANGED sessionVars
    /\ UNCHANGED callVars

NextResplit ==
    \/ FirstSplit(rng_permutation(Len(images)))
    \/ SecondSplit(rng_permutation(Len(X_train_val)))
    \/ DrawGlobal
    \/ RerunSplit

SpecResplit == InitResplit /\ [][NextResplit]_vars

(***************************************************************************)
(* Two experiments on the same grid, the choice lists written in another   *)
(* order for the second, each in a session of its own                      *)
(***************************************************************************)
Reverse(q) == [i \in 1..Len(q) |-> q[Len(q) + 1 - i]]

\* a training routine that is a function of the model state and the point: the
\* validation accuracy of its last epoch grows with the training the weights have
\* already had
train(w, p) ==
    CHOOSE m \in TrainResults : m.test_ham_acc = PyFloat(Min(MaxMetric, 1 + Len(w)))

\* what the call in flight returns
TrainOutcomes ==
    IF phase = "training" /\ train_calls # <<>>
    THEN {train(train_calls[Len(train_calls)].initial, point)}
    ELSE {}

\* the kernel is restarted and the notebook run again from the top, the three lists of
\* the grid-definition cell reversed; the files written so far stay on disk
Restart ==
    /\ pc = NextCell(nb, "select") /\ ~halted
    /\ prior = None
    /\ prior' = Some([results |-> results, best_params |-> best_params])
    /\ reruns' = reruns + 1
    /\ choices' = [batch_size |-> Reverse(choices.batch_size),
                   num_epochs |-> Reverse(choices.num_epochs),
                   lrs        |-> Reverse(choices.lrs)]
    /\ pc' = "grid_def"
    /\ hyperparameter_combos' = <<>>
    /\ results' = <<>>
    /\ ti' = 1 /\ ci' = 1 /\ phase' = "head"
    /\ iterations' = 0
    /\ train_dataloader' = None
    /\ val_dataloader' = BATCH_SIZE
    /\ save_dir' = None
    /\ writers_open' = IF nb = "res18" THEN 1 ELSE 0
    /\ results_df' = None
    /\ best_params' = None
    /\ retrained' = None
    /\ train_calls' = <<>>
    /\ model_weights' = <<>>
    /\ evaluated' = <<>>
    /\ UNCHANGED <<nb, halted, err, best_file, csv_file, test_file, resumed, supplied,
                   error_prints>>
    /\ UNCHANGED <<permutation, np_random, annotations, annotations_df>>
    /\ UNCHANGED splitVars

NextOrder ==
    \/ GridDef
    \/ TrialSetup
    \/ \E m \in TrainOutcomes : TrainReturns(m)
    \/ LoopEnd
    \/ SaveDirCell
    \/ CsvCell
    \/ SelectCell
    \/ Restart

SpecOrder == Init /\ [][NextOrder]_vars

(***************************************************************************)
(* The data cell from the top: annotations.csv is read and cleaned, the    *)
(* label and image lists are built, the lists are split                    *)
(***************************************************************************)
\* rows of annotations.csv in a run
MaxRows == 3

\* the feature columns: df.columns[1:16]
NumFeatures == 15

\* the feature columns in which a row of the file may differ from a well-formed row
ProbedColumns == {1, NumFeatures}

\* cell texts are sequences of characters; <<>> is a blank cell
Digits == <<"0", "1", "2", "3", "4", "5", "6", "7", "8", "9">>

IsDigit(c) == \E i \in 1..Len(Digits) : Digits[i] = c

DigitValue(c) == (CHOOSE i \in 1..Len(Digits) : Digits[i] = c) - 1

RECURSIVE Decimal(_)
Decimal(t) ==
    IF t = <<>> THEN 0
    ELSE 10 * Decimal(SubSeq(t, 1, Len(t) - 1)) + DigitValue(t[Len(t)])

\* pd.to_numeric(..., errors='coerce') on one cell: the number, or NaN (<<>>) for a
\* blank cell and for text that is no number
to_numeric(t) ==
    IF t # <<>> /\ \A i \in 1..Len(t) : IsDigit(t[i]) THEN Some(Decimal(t)) ELSE None

\* a well-formed row: 1 and 0 in turn
CleanCells == [c \in 1..NumFeatures |-> IF c % 2 = 1 THEN <<"1">> ELSE <<"0">>]

\* what a cell of a row may hold instead: nothing, text, a number that is no 0 or 1
OddTexts == {<<>>, <<"x">>, <<"2">>}

\* the file name of row k, and a blank file name
FileName(k) == <<"f", Digits[k + 1]>>

\* the rows a file may hold at line k
AnnotationRows(k) ==
    {[filename |-> FileName(k), cells |-> CleanCells]}
    \cup {[filename |-> <<>>, cells |-> CleanCells]}
    \cup {[filename |-> FileName(k), cells |-> [CleanCells EXCEPT ![c] = t]] :
             c \in ProbedColumns, t \in OddTexts}

AnnotationFiles ==
    UNION {{f \in [1..n -> UNION {AnnotationRows(k) : k \in 1..n}] :
               \A k \in 1..n : f[k] \in AnnotationRows(k)} : n \in 0..MaxRows}

\* the first 16 columns of a frame row hold a NaN: dropna(subset=df.columns[:16])
\* looks at the filename column too
HasNaN(row) == row.filename = <<>> \/ \E c \in 1..NumFeatures : row.cells[c] = None

\* a variant of dropna without inplace=True: the frame keeps all its rows
dropna_notInplace(rows) == rows

\* df.dropna(subset=df.columns[:16], inplace=True); df.reset_index(drop=True, inplace=True)
dropna(rows) == SelectSeq(rows, LAMBDA row : ~HasNaN(row))

InitLoad ==
    /\ SessionInit({[batch_size |-> batch_size, num_epochs |-> num_epochs, lrs |-> lrs]})
    /\ nb = "res18"
    /\ annotations \in AnnotationFiles
    /\ annotations_df = None
    /\ images = <<>> /\ labels = <<>>
    /\ X_train_val = <<>> /\ y_train_val = <<>> /\ X_test = <<>> /\ y_test = <<>>
    /\ X_train = <<>> /\ y_train = <<>> /\ X_val = <<>> /\ y_val = <<>>
    /\ split_pc = "read"
    /\ reruns = 0
    /\ prior = None
    /\ permutation = <<>>
    /\ np_random = 0

\* read_csv, the to_numeric loop over the feature columns, dropna, reset_index
CleanAnnotations ==
    /\ split_pc = "read"
    /\ annotations_df' =
          Some(dropna([k \in 1..Len(annotations) |->
                          [filename |-> annotations[k].filename,
                           cells    |-> [c \in 1..NumFeatures |->
                                            to_numeric(annotations[k].cells[c])]]]))
    /\ split_pc' = "lists"
    /\ UNCHANGED <<images, labels, X_train_val, y_train_val, X_test, y_test,
                   X_train, y_train, X_val, y_val>>
    /\ UNCHANGED <<reruns, prior, permutation, np_random, annotations>>
    /\ UNCHANGED sessionVars
    /\ UNCHANGED callVars

\* labels.append(list(row.iloc[1:16])) for every row, then Image.open for every file
\* name; a file that cannot be opened stops the cell
BuildLists(outcome) ==
    /\ split_pc = "lists"
    /\ labels' = [i \in 1..Len(annotations_df[1]) |->
                     [c \in 1..NumFeatures |-> annotations_df[1][i].cells[c][1]]]
    /\ IF outcome = "opened"
       THEN /\ images' = [i \in 1..Len(annotations_df[1]) |-> annotations_df[1][i].filename]
            /\ split_pc' = "start"
       ELSE /\ images' = <<>>
            /\ split_pc' = "error"
    /\ UNCHANGED <<X_train_val, y_train_val, X_test, y_test, X_train, y_train, X_val, y_val>>
    /\ UNCHANGED auxVars
    /\ UNCHANGED sessionVars
    /\ UNCHANGED callVars

NextLoad ==
    \/ CleanAnnotations
    \/ \E outcome \in {"opened", "raises"} : BuildLists(outcome)
    \/ \E perm \in ShufflePerms(Len(images)) : FirstSplit(perm)
    \/ \E perm \in ShufflePerms(Len(X_train_val)) : SecondSplit(perm)

SpecLoad == InitLoad /\ [][NextLoad]_vars

(***************************************************************************)
(* The grid search executed again in the same session                      *)
(***************************************************************************)
\* times the user executes the grid search again
MaxReruns == 1

\* the loop cell is executed again, and nothing else: the for statements start over
RerunLoop ==
    /\ pc = NextCell(nb, "grid_loop") /\ ~halted
    /\ reruns < MaxReruns
    /\ reruns' = reruns + 1
    /\ prior' = Some([from |-> "grid_loop", calls |-> Len(train_calls)])
    /\ pc' = "grid_loop"
    /\ ti' = 1 /\ ci' = 1 /\ phase' = "head"
    /\ iterations' = 0
    /\ UNCHANGED <<nb, choices, halted, err, hyperparameter_combos, results, train_dataloader,
                   val_dataloader, save_dir, writers_open, results_df, best_params, best_file,
                   csv_file, retrained, test_file, resumed, supplied, error_prints>>
    /\ UNCHANGED <<permutation, np_random, annotations, annotations_df>>
    /\ UNCHANGED callVars
    /\ UNCHANGED splitVars

\* the grid-definition cell and the loop cell are executed again
RerunGridDef ==
    /\ pc = NextCell(nb, "grid_loop") /\ ~halted
    /\ reruns < MaxReruns
    /\ reruns' = reruns + 1
    /\ prior' = Some([from |-> "grid_def", calls |-> Len(train_calls)])
    /\ pc' = "grid_def"
    /\ iterations' = 0
    /\ UNCHANGED <<nb, choices, halted, err, hyperparameter_combos, results, ti, ci, phase,
                   train_dataloader, val_dataloader, save_dir, writers_open, results_df,
                   best_params, best_file, csv_file, retrained, test_file, resumed, supplied,
                   error_prints>>
    /\ UNCHANGED <<permutation, np_random, annotations, annotations_df>>
    /\ UNCHANGED callVars
    /\ UNCHANGED splitVars

NextRerun ==
    \/ GridDef
    \/ TrialSetup
    \/ \E m \in TrainResults : TrainReturns(m)
    \/ TrainRaises("train")
    \/ LoopEnd
    \/ RerunLoop
    \/ RerunGridDef

SpecRerun == InitFair /\ [][NextRerun]_vars

(***************************************************************************)
(* Properties                                                              *)
(***************************************************************************)
Last(q) == q[Len(q)]

\* the k-th point of the enumeration: the transforms outermost, then the combinations
GridPoint(k) ==
    [transform  |-> GridTransforms(nb)[((k - 1) \div Len(hyperparameter_combos)) + 1],
     batch_size |-> hyperparameter_combos[((k - 1) % Len(hyperparameter_combos)) + 1][1],
     epochs     |-> hyperparameter_combos[((k - 1) % Len(hyperparameter_combos)) + 1][2],
     lr         |-> hyperparameter_combos[((k - 1) % Len(hyperparameter_combos)) + 1][3]]

\* the grid point a result row carries
RowPoint(r) ==
    [transform |-> r.transform.s, batch_size |-> r.batch_size.n,
     epochs |-> r.epochs.n, lr |-> r.lr.n]

AllMetricsNaN(r) ==
    /\ IsNaN(r.final_test_loss)
    /\ IsNaN(r.final_test_ham_acc)
    /\ IsNaN(r.final_test_zero_one_acc)

\* C1: whenever the except clause of the grid loop runs (a training call raised an
\* Exception), exactly one row is appended, it carries the transform, batch_size, epochs
\* and lr of the point being run with all three metrics NaN, the loop cell is not
\* stopped and the loops stand at the next grid point; the loop cell is never stopped
\* while a training call is in flight.
C1_FailedTrialRecorded ==
    /\ [](pc = "grid_loop" /\ halted => phase = "head")
    /\ [][error_prints' = error_prints + 1 =>
            /\ Len(results') = Len(results) + 1
            /\ SubSeq(results', 1, Len(results)) = results
            /\ RowPoint(Last(results')) =
                  [transform |-> transform_name, batch_size |-> point[1],
                   epochs |-> point[2], lr |-> point[3]]
            /\ AllMetricsNaN(Last(results'))
            /\ pc' = "grid_loop" /\ ~halted' /\ phase' = "head"
            /\ iterations' = iterations + 1
            /\ IF ci < Len(hyperparameter_combos)
               THEN ti' = ti /\ ci' = ci + 1
               ELSE ti' = ti + 1 /\ ci' = 1]_vars

\* a trial failed, its NaN row is first in results, and the sweep went on to record
\* a later point
C1_Witness ==
    /\ pc = "grid_loop" /\ ~halted
    /\ error_prints >= 1
    /\ Len(results) >= 2
    /\ AllMetricsNaN(results[1])
    /\ ~IsNaN(results[2].final_test_ham_acc)

\* C2 as stated: no exception of any step of an iteration stops the loop cell, so the
\* iterations completed equal the grid size once the session is past the loop cell.
C2_NothingEscapes ==
    /\ pc = "grid_loop" => ~halted
    /\ pc \notin {"grid_def", "grid_loop"} => iterations = GridSize

\* C2 amended: the loop cell is stopped only by a step that stands before the try
\* statement (DataLoader, makedirs, SummaryWriter, the first add_hparams), never by the
\* training call, the reading of its metrics or the logging of the result; a loop that
\* ran to its end completed as many iterations as the grid has points, also when every
\* trial failed; a session past the loop cell with fewer iterations went on by hand.
C2_OnlySetupEscapes ==
    /\ pc = "grid_loop" /\ halted => err \in SetupSteps /\ phase = "head"
    /\ LoopDone => iterations = GridSize
    /\ pc \notin {"grid_def", "grid_loop"} /\ iterations < GridSize => resumed

\* every trial of a four-point grid failed and the loop ran to its end
C2_Witness ==
    /\ LoopDone
    /\ GridSize = 4
    /\ iterations = GridSize
    /\ error_prints = GridSize

\* C3: once the grid is defined, results holds as many rows as iterations completed,
\* row k carrying the k-th grid point of the enumeration; after the loop it holds one
\* row per grid point and no other; no step changes or removes a row already appended.
C3_OneRowPerPoint ==
    /\ [](hyperparameter_combos # <<>> =>
            /\ Len(results) = iterations
            /\ Len(results) <= GridSize
            /\ \A k \in 1..Len(results) : RowPoint(results[k]) = GridPoint(k)
            /\ LoopDone => Len(results) = GridSize)
    /\ [][\A k \in 1..Len(results) : k <= Len(results') /\ results'[k] = results[k]]_vars

\* a finished four-point sweep with failed and successful trials mixed
C3_Witness ==
    /\ LoopDone
    /\ Len(results) = 4
    /\ \E i, j \in 1..Len(results) :
          IsNaN(results[i].final_test_ham_acc) /\ ~IsNaN(results[j].final_test_ham_acc)

\* the selection cell ran to its end
SelectStep == pc = "select" /\ ~halted /\ pc' = NextCell(nb, "select")

\* dict d holds the point and the three metric values of row r
Carries(d, r) ==
    /\ DOMAIN d = {BestKeys[m] : m \in 1..Len(BestKeys)}
    /\ d.transform.s = r.transform.s
    /\ \A k \in DOMAIN d \ {"transform"} : d[k].n = r[k].n /\ IsNaN(d[k]) = IsNaN(r[k])

\* document doc holds exactly the seven members, with the values of row r
FileCarries(doc, r) ==
    /\ Len(doc) = Len(BestKeys)
    /\ \A m \in 1..Len(doc) :
          /\ doc[m].key = BestKeys[m]
          /\ IF doc[m].key = "transform"
             THEN doc[m].value.lit = "string" /\ doc[m].value.text = r.transform.s
             ELSE /\ doc[m].value.lit \in {"integer", "fraction"}
                  /\ doc[m].value.n = r[doc[m].key].n

\* C4: when the selection cell runs to its end, there is a row of results whose
\* final_test_ham_acc is not NaN and is at least that of every other non-NaN row, and
\* both best_params and the document written to best_params_<backbone>.json carry that
\* row's transform, batch_size, epochs, lr and three metric values.
C4_SelectsMaximum ==
    [][SelectStep =>
        \E i \in 1..Len(results) :
            /\ ~IsNaN(results[i].final_test_ham_acc)
            /\ \A j \in 1..Len(results) :
                  ~IsNaN(results[j].final_test_ham_acc) =>
                      results[j].final_test_ham_acc.n <= results[i].final_test_ham_acc.n
            /\ Carries(best_params'[1], results[i])
            /\ FileCarries(best_file'[1], results[i])]_vars

\* a selection over a frame with a NaN row first and two valid rows of different
\* accuracy, the better one later
C4_Witness ==
    /\ pc \in {"load", "retrain"} /\ ~halted /\ ~supplied
    /\ best_params # None
    /\ Len(results) = 4
    /\ IsNaN(results[1].final_test_ham_acc)
    /\ ~IsNaN(results[2].final_test_ham_acc)
    /\ ~IsNaN(results[3].final_test_ham_acc)
    /\ results[2].final_test_ham_acc.n < results[3].final_test_ham_acc.n

\* every trial of the sweep failed
AllFailed == Len(results) > 0 /\ \A i \in 1..Len(results) : IsNaN(results[i].final_test_ham_acc)

\* C5: while every row of results is NaN, the selection cell never runs to its end: it
\* stops with an error, binds no best_params and writes no file; no document with a NaN
\* final_test_ham_acc is ever in best_params_<backbone>.json, and the retrain call is
\* never made with a configuration whose final_test_ham_acc is NaN.
C5_NoBestWhenAllFailed ==
    /\ [](/\ AllFailed /\ ~supplied => best_params = None /\ best_file = None /\ retrained = None
          /\ best_file # None => ~IsNaN(JsonLoad(best_file[1]).final_test_ham_acc)
          /\ retrained # None => ~IsNaN(best_params[1].final_test_ham_acc))
    /\ [][AllFailed /\ pc = "select" /\ ~halted =>
            halted' /\ pc' = "select" /\ err' = "KeyError"
            /\ UNCHANGED <<best_params, best_file>>]_vars

\* the selection cell stopped on a frame whose rows are all NaN
C5_Witness ==
    /\ AllFailed
    /\ LoopDone
    /\ pc = "select" /\ halted /\ err = "KeyError"
    /\ best_file = None

\* the augmentation pipeline a transform name stands for in notebook n
NamedPipeline(n, t) ==
    IF t = "triv_aug" THEN "triv_aug"
    ELSE IF t = BaselineName(n) THEN "baseline"
    ELSE "unknown"

\* C6 as stated: in a run that nobody continued by hand past a failed cell, the
\* retrain training call is made only with a Best Configuration whose transform names
\* one of the notebook's two augmentation variants; with any other name the run stops
\* with "Unknown transform" before the call.
C6_UnknownTransformStops ==
    retrained # None /\ ~resumed =>
        NamedPipeline(nb, best_params[1].transform.s) # "unknown"

\* C7 as stated: in a run that nobody continued by hand and whose configuration is
\* the one the sweep selected, the retrain call gets a training data loader with the
\* augmentation variant and batch_size of the Best Configuration, and its epochs and lr.
C7_RetrainUsesBestConfig ==
    retrained # None /\ ~resumed /\ ~supplied =>
        /\ retrained[1].transform = NamedPipeline(nb, best_params[1].transform.s)
        /\ retrained[1].batch_size = best_params[1].batch_size.n
        /\ retrained[1].epochs = best_params[1].epochs.n
        /\ retrained[1].lr = best_params[1].lr.n

IndexOf(q, v) == CHOOSE i \in 1..Len(q) : q[i] = v

\* the places of a row's transform, batch size, epochs and lr in their choice lists
Key(r) ==
    <<IndexOf(GridTransforms(nb), r.transform.s), IndexOf(choices.batch_size, r.batch_size.n),
      IndexOf(choices.num_epochs, r.epochs.n), IndexOf(choices.lrs, r.lr.n)>>

LexLess(a, b) == \E m \in 1..4 : a[m] < b[m] /\ \A q \in 1..(m - 1) : a[q] = b[q]

\* C9: hyperparameter_combos has a*b*c entries for choice lists of a batch sizes, b
\* epoch counts and c learning rates; the nested loops visit the points in the one
\* lexicographic order of (transform, batch size, epochs, lr), so no point twice; after
\* the loop every combination of the four choices has been visited, 2*a*b*c points in
\* all, 36 for the configured lists.
C9_FullCrossProduct ==
    hyperparameter_combos # <<>> =>
        /\ Len(hyperparameter_combos) =
              Len(choices.batch_size) * Len(choices.num_epochs) * Len(choices.lrs)
        /\ \A k \in 1..Len(results) :
              /\ results[k].transform.s \in {GridTransforms(nb)[i] : i \in 1..2}
              /\ results[k].batch_size.n \in {choices.batch_size[i] : i \in 1..Len(choices.batch_size)}
              /\ results[k].epochs.n \in {choices.num_epochs[i] : i \in 1..Len(choices.num_epochs)}
              /\ results[k].lr.n \in {choices.lrs[i] : i \in 1..Len(choices.lrs)}
        /\ \A i, j \in 1..Len(results) : i < j => LexLess(Key(results[i]), Key(results[j]))
        /\ LoopDone =>
              /\ Len(results) =
                    2 * Len(choices.batch_size) * Len(choices.num_epochs) * Len(choices.lrs)
              /\ \A t \in 1..2, b \in 1..Len(choices.batch_size),
                    e \in 1..Len(choices.num_epochs), l \in 1..Len(choices.lrs) :
                    \E k \in 1..Len(results) : Key(results[k]) = <<t, b, e, l>>
              /\ (choices = [batch_size |-> batch_size, num_epochs |-> num_epochs, lrs |-> lrs]
                    => Len(results) = 36)

\* the configured grid was enumerated to its end
C9_Witness ==
    /\ LoopDone
    /\ choices = [batch_size |-> batch_size, num_epochs |-> num_epochs, lrs |-> lrs]
    /\ Len(results) = 36

Range(q) == {q[i] : i \in 1..Len(q)}

\* C10: when both train_test_split calls have returned, the train, validation and test
\* sequences (of images and of labels alike) hold no row twice, share no row, together
\* hold as many rows as were kept, and the test and the validation sequence each differ
\* from a tenth of the rows by at most one row.
C10_SplitPartition ==
    split_pc = "done" =>
        /\ Len(X_train) + Len(X_val) + Len(X_test) = Len(images)
        /\ Cardinality(Range(X_train)) = Len(X_train)
        /\ Cardinality(Range(X_val)) = Len(X_val)
        /\ Cardinality(Range(X_test)) = Len(X_test)
        /\ Range(X_train) \cap Range(X_val) = {}
        /\ Range(X_train) \cap Range(X_test) = {}
        /\ Range(X_val) \cap Range(X_test) = {}
        /\ Range(X_train) \cup Range(X_val) \cup Range(X_test) = Range(images)
        /\ y_train = X_train /\ y_val = X_val /\ y_test = X_test
        /\ 10 * Len(X_test) - Len(images) \in -10..10
        /\ 10 * Len(X_val) - Len(images) \in -10..10

\* 21 rows were split into 16, 2 and 3
C10_Witness ==
    /\ split_pc = "done"
    /\ Len(images) = 21
    /\ Len(X_test) = 3
    /\ Len(X_val) = 2
    /\ Len(X_train) = 16

RowMetrics(r) == <<r.final_test_loss, r.final_test_ham_acc, r.final_test_zero_one_acc>>

\* C12 as stated: when two experiments have swept the same grid in different orders,
\* with the same training routine, a function of the model state and the point, every
\* grid point has the same three metrics in both result lists, and both select the same
\* Best Configuration.
C12_OrderIndependent ==
    prior # None /\ pc = NextCell(nb, "select") /\ ~halted =>
        /\ \A i \in 1..Len(results), j \in 1..Len(prior[1].results) :
              RowPoint(results[i]) = RowPoint(prior[1].results[j]) =>
                  RowMetrics(results[i]) = RowMetrics(prior[1].results[j])
        /\ best_params = prior[1].best_params

\* the cell the session is at moves down by one cell at a time
OneCellAtATime ==
    [][~resumed' => CellIndex(nb, pc') \in {CellIndex(nb, pc), CellIndex(nb, pc) + 1}]_vars

\* what a phase leaves behind is there only after what the phases before it leave behind
PhasesInOrder ==
    ~resumed =>
        /\ test_file # None => retrained # None
        /\ retrained # None => best_params # None
        /\ best_params # None /\ ~supplied => best_file # None /\ results_df # None
        /\ results_df # None => hyperparameter_combos # <<>> /\ split_pc = "done"
        /\ pc = "end" => test_file # None

\* C13 as stated: the phases come in order, none skipped, and the run always gets to the
\* state in which the final test metrics are persisted.
C13_PhasesToTheEnd ==
    OneCellAtATime /\ []PhasesInOrder /\ <>(resumed \/ test_file # None)

\* C13, amended: the phases come in order, none skipped; a run that nobody continues by
\* hand either persists the final test metrics or is stopped at the cell in which an
\* exception was not caught, and it gets to one of the two.
C13_PhasesInOrderOrStopped ==
    OneCellAtATime /\ []PhasesInOrder
        /\ <>(resumed \/ halted \/ (pc = "end" /\ test_file # None))

\* a run got through all its phases without anybody's help
C13_Witness ==
    /\ pc = "end"
    /\ ~resumed /\ ~supplied
    /\ test_file # None
    /\ retrained # None
    /\ csv_file # None

\* the train() calls in flight
Running == {i \in 1..Len(train_calls) : train_calls[i].status = "running"}

\* C14: at every moment at most one train() call is in flight, and it is the one made
\* last; when the call for a grid point starts, every earlier call has returned or
\* raised and has its row in results.
C14_TrialsSequential ==
    /\ [](Cardinality(Running) <= 1 /\ Running \subseteq {Len(train_calls)})
    /\ [][Len(train_calls') > Len(train_calls) =>
              /\ Running = {}
              /\ Len(train_calls') = Len(train_calls) + 1
              /\ train_calls'[Len(train_calls')].kind = "grid" =>
                    /\ Len(results) = Len(train_calls)
                    /\ \A i \in 1..Len(train_calls) :
                          /\ results[i].batch_size.n = train_calls[i].batch_size
                          /\ results[i].epochs.n = train_calls[i].epochs
                          /\ results[i].lr.n = train_calls[i].lr
                          /\ PipelineOf(results[i].transform.s) = train_calls[i].transform]_vars

\* the second trial's call is in flight, the first trial's call is over and has its row
C14_Witness ==
    /\ Len(train_calls) = 2
    /\ train_calls[1].status = "done"
    /\ train_calls[2].status = "running"
    /\ Len(results) = 1

\* the loop cell is over: it ran to its end or an exception stopped it
LoopOver ==
    \/ CellIndex(nb, pc) > CellIndex(nb, "grid_loop")
    \/ pc = "grid_loop" /\ halted

\* the train() calls of the grid loop
GridCalls == {i \in 1..Len(train_calls) : train_calls[i].kind = "grid"}

\* while a train() call of the loop has not returned, the loop cell is not over and no
\* results frame, results CSV or Best Configuration exists
BlockedWhileRunning ==
    Running # {} /\ pc = "grid_loop" =>
        ~LoopOver /\ results_df = None /\ csv_file = None /\ best_file = None /\ best_params = None

\* and no other call is started
NoStartWhileRunning == [][Running # {} => Len(train_calls') = Len(train_calls)]_vars

\* C15 as stated: provided every train() call returns or raises the grid search ends,
\* and whenever it has ended exactly one call was made per grid point and none is still
\* running; while a call has not returned no later point is started and nothing is
\* persisted.
C15_SweepEndsIffCallsEnd ==
    /\ [](LoopOver /\ ~resumed => Cardinality(GridCalls) = GridSize /\ Running = {})
    /\ []BlockedWhileRunning
    /\ NoStartWhileRunning
    /\ <>LoopOver

\* C15, amended: provided every train() call returns or raises the grid search ends:
\* either the loop ran to its end, after exactly one call per grid point, or a step
\* before the try statement raised and stopped it with fewer calls; in both cases no
\* call is still running; while a call has not returned no later point is started and
\* nothing is persisted.
C15_SweepEndsUnlessSetupRaises ==
    /\ [](LoopOver /\ ~resumed =>
            /\ Running = {}
            /\ IF pc = "grid_loop"
               THEN err \in SetupSteps /\ Cardinality(GridCalls) < GridSize
               ELSE Cardinality(GridCalls) = GridSize)
    /\ []BlockedWhileRunning
    /\ NoStartWhileRunning
    /\ <>LoopOver

\* the loop ran to its end although a trial failed: one call per grid point
C15_Witness ==
    /\ LoopOver
    /\ ~halted /\ ~resumed
    /\ Cardinality(GridCalls) = GridSize
    /\ error_prints > 0

\* a cell text that is a number
Numeric(t) == t # <<>> /\ \A i \in 1..Len(t) : t[i] \in {Digits[d] : d \in 1..Len(Digits)}

AllNumeric(row) == \A c \in 1..NumFeatures : Numeric(row.cells[c])

\* the lines of the file whose rows are in the cleaned frame, in the frame's order
KeptLines(frame) ==
    [i \in 1..Len(frame) |->
        CHOOSE k \in 1..Len(annotations) : annotations[k].filename = frame[i].filename]

\* the image list and the label list are built
ListsBuilt == split_pc \in {"start", "first", "done"}

\* entry i of the image list and of the label list come from the i-th kept row
ListsParallel ==
    ListsBuilt =>
        /\ Len(images) = Len(labels)
        /\ Len(images) = Len(annotations_df[1])
        /\ \A i \in 1..Len(images) :
              /\ images[i] = annotations[KeptLines(annotations_df[1])[i]].filename
              /\ \A c \in 1..NumFeatures :
                    <<labels[i][c]>> =
                        to_numeric(annotations[KeptLines(annotations_df[1])[i]].cells[c])
        /\ \A i, j \in 1..Len(images) :
              i < j => KeptLines(annotations_df[1])[i] < KeptLines(annotations_df[1])[j]

SplitLabels ==
    IF split_pc = "done" THEN Range(y_train) \cup Range(y_val) \cup Range(y_test) ELSE {}

\* C17 as stated: whatever text or numbers the feature cells of the annotation file
\* hold, every label vector that reaches the split has 15 entries, each of them 0 or 1.
C17_LabelsBinary ==
    \A v \in SplitLabels :
        /\ Len(v) = NumFeatures
        /\ \A c \in 1..NumFeatures : v[c] \in {0, 1}

\* the backbone a file name carries
NameBackbone(name) ==
    CASE name \in {"hyperparameter_testing_Res18.csv", "best_params_res18.json",
                   "test_results_res18.json"} -> "res18"
      [] name \in {"hyperparameter_testing_d201.csv", "best_params_d201.json",
                   "test_results_d201.json"} -> "d201"
      [] name \in {"best_params_eb0.json", "test_results_eb0.json"} -> "eb0"

\* C18 as stated: the results CSV, the Best Configuration file and the test results
\* file a notebook has written bear names that carry its own backbone, so that no name
\* is written by two of the three notebooks.
C18_OwnBackboneNames ==
    /\ csv_file # None => NameBackbone(csv_file[1].name) = nb
    /\ best_file # None => NameBackbone(BestName(nb)) = nb
    /\ test_file # None => NameBackbone(test_file[1].name) = nb

\* the grid search was executed again and the loop has run to its end
RerunOver == prior # None /\ reruns > 0 /\ pc = NextCell(nb, "grid_loop") /\ ~halted

\* C19 as stated: after the grid search was executed again, from the grid-definition
\* cell or from the loop cell alone, every grid point was trained again and results
\* holds exactly one row per grid point, in the order of the grid.
C19_RerunRestartsGrid ==
    RerunOver =>
        /\ Len(train_calls) = prior[1].calls + GridSize
        /\ \A k \in 1..GridSize :
              /\ train_calls[prior[1].calls + k].batch_size = GridPoint(k).batch_size
              /\ train_calls[prior[1].calls + k].epochs = GridPoint(k).epochs
              /\ train_calls[prior[1].calls + k].lr = GridPoint(k).lr
              /\ train_calls[prior[1].calls + k].transform = PipelineOf(GridPoint(k).transform)
        /\ Len(results) = GridSize
        /\ \A k \in 1..Len(results) : k <= GridSize /\ RowPoint(results[k]) = GridPoint(k)
        /\ results_df = Some(DataFrame(results))

\* the hyperparameters the calls before call i trained the model with, oldest first
WeightsBefore(i) ==
    [k \in 1..(i - 1) |-> [transform  |-> train_calls[k].transform,
                           batch_size |-> train_calls[k].batch_size,
                           epochs     |-> train_calls[k].epochs,
                           lr         |-> train_calls[k].lr]]

\* C20: the model is never reinitialised: every training call after the first starts
\* from the weights left by the call executed before it, a failed one included, and
\* the retrain that follows a grid search starts from the weights the last grid trial
\* left, never from the pretrained backbone with a fresh head.
C20_WeightsCarriedOver ==
    /\ \A i \in 1..Len(train_calls) :
          /\ train_calls[i].initial = WeightsBefore(i)
          /\ i > 1 => train_calls[i].initial = Trained(train_calls[i - 1])
          /\ (train_calls[i].kind = "retrain" /\ i > 1) =>
                /\ train_calls[i - 1].kind = "grid"
                /\ train_calls[i].initial # <<>>
    /\ (train_calls # <<>> /\ train_calls[Len(train_calls)].status = "done") =>
          model_weights = Trained(train_calls[Len(train_calls)])

\* the retrain was made after a sweep of several trials, one of which failed
C20_Witness ==
    /\ Len(train_calls) >= 3
    /\ train_calls[Len(train_calls)].kind = "retrain"
    /\ train_calls[Len(train_calls)].initial = WeightsBefore(Len(train_calls))
    /\ error_prints > 0

\* C21 as stated: in a run that nobody continued by hand and whose Best Configuration
\* is the one its own sweep selected, the load cell never stops with "Unknown
\* transform": every transform name a result row can carry passes the notebook's guard.
C21_GridNamesPassGuard ==
    (pc = "load" /\ halted /\ ~resumed /\ ~supplied) => err # "ValueError"

\* the sweep ran to its end with at least one failed and at least one successful trial
MixedSweep ==
    /\ LoopDone /\ CellIndex(nb, pc) > CellIndex(nb, "grid_loop")
    /\ \E i \in 1..Len(results) : AllMetricsNaN(results[i])
    /\ \E i \in 1..Len(results) : ~AllMetricsNaN(results[i])

\* C22 as stated: after a sweep in which a trial failed and another succeeded, in a
\* run that nobody continued by hand, neither the CSV cell nor the selection cell
\* stops with an exception, and the CSV that is written holds every row.
C22_FailedTrialDoesNotStopRun ==
    (MixedSweep /\ ~resumed) =>
        /\ ~(halted /\ pc \in {"csv", "select"})
        /\ csv_file # None => Len(csv_file[1].rows) = Len(results)

(***************************************************************************)
(* The notebook from its first plotting cell: the feature-distribution      *)
(* cells above the grid search and the evaluation plots below the test cell *)
(***************************************************************************)
\* the three feature-distribution cells, in order
PlotCells == <<"plot_train", "plot_val", "plot_test">>

\* the cell passes save_dir to at_the_bar (the call of the ResNet-18 training-set
\* cell is commented out)
ReadsSaveDir(n, c) == ~(n = "res18" /\ c = "plot_train")

\* the cell's source does not compile (a stray character after the call)
BadSyntax(n, c) == n = "res18" /\ c = "plot_test"

\* the cell below a feature-distribution cell
BelowPlot(c) ==
    CASE c = "plot_train" -> "plot_val"
      [] c = "plot_val"   -> "plot_test"
      [] c = "plot_test"  -> "grid_def"

\* everything but the position of the run
restVars == <<nb, choices, hyperparameter_combos, results, ti, ci, phase, iterations,
              train_dataloader, val_dataloader, save_dir, writers_open, results_df,
              best_params, best_file, csv_file, retrained, test_file, supplied,
              error_prints>>

\* a feature-distribution cell: the arguments of at_the_bar are evaluated first
FeaturePlot(c) ==
    /\ At(c)
    /\ IF BadSyntax(nb, c) THEN Raise("SyntaxError")
       ELSE IF ReadsSaveDir(nb, c) /\ save_dir = None THEN Raise("NameError")
       ELSE pc' = BelowPlot(c) /\ halted' = FALSE /\ err' = ""
    /\ UNCHANGED <<restVars, resumed, splitVars, auxVars, callVars>>

\* the user runs the cell below a feature-distribution cell that failed
ResumePlot ==
    /\ halted
    /\ pc \in Range(PlotCells)
    /\ pc' = BelowPlot(pc) /\ halted' = FALSE /\ err' = ""
    /\ resumed' = TRUE
    /\ UNCHANGED <<restVars, splitVars, auxVars, callVars>>

\* the evaluation cells below the test cell: how_did_i_do gets the test loader, the
\* plotting calls get save_dir
EvalPlots ==
    /\ At("end")
    /\ IF save_dir = None
       THEN Raise("NameError")
       ELSE pc' = "plots_done" /\ halted' = FALSE /\ err' = ""
    /\ evaluated' = Append(evaluated, Evaluation("how_did_i_do", "test_dataloader"))
    /\ UNCHANGED <<restVars, resumed, splitVars, auxVars, train_calls, model_weights>>

\* a fresh session at its first feature-distribution cell, a grid of one point per
\* transform
InitTop ==
    /\ nb \in Notebooks
    /\ choices = [batch_size |-> Prefix(batch_size, 1),
                  num_epochs |-> Prefix(num_epochs, 1),
                  lrs        |-> Prefix(lrs, 1)]
    /\ pc = PlotCells[1]
    /\ halted = FALSE /\ err = ""
    /\ hyperparameter_combos = <<>> /\ results = <<>>
    /\ ti = 1 /\ ci = 1 /\ phase = "head" /\ iterations = 0
    /\ train_dataloader = None /\ val_dataloader = BATCH_SIZE
    /\ save_dir = None
    /\ writers_open = IF nb = "res18" THEN 1 ELSE 0
    /\ results_df = None /\ best_params = None /\ best_file = None
    /\ csv_file = None /\ retrained = None /\ test_file = None
    /\ resumed = FALSE /\ supplied = FALSE /\ error_prints = 0
    /\ train_calls = <<>> /\ model_weights = <<>> /\ evaluated = <<>>
    /\ SplitIdle
    /\ AuxIdle

NextTop ==
    \/ \E c \in Range(PlotCells) : FeaturePlot(c)
    \/ ResumePlot
    \/ CellStep
    \/ (pc \in Range(Cells(nb)) /\ Resume)
    \/ EvalPlots

SpecTop == InitTop /\ [][NextTop]_vars

\* C23 as stated: in a run from the top that nobody continued by hand, no cell stops
\* on an undefined save_dir: save_dir is bound before every cell that reads it.
C23_SaveDirBoundBeforeRead ==
    (halted /\ ~resumed) => ~(err = "NameError" /\ save_dir = None)

\* the directory is one the grid loop made for a grid point
IsRunDir(d) == d.kind = "run"

\* C24 as stated: in each notebook the results CSV and the test-results JSON are
\* written to a directory that does not depend on the grid search: in a run that
\* nobody continued by hand, never the run directory of the grid point executed last.
C24_ArtifactDirNotRunDir ==
    ~resumed =>
        /\ csv_file # None => ~IsRunDir(csv_file[1].dir)
        /\ test_file # None => ~IsRunDir(test_file[1].dir)

\* row i holds the largest final_test_ham_acc of the valid rows and no row before it does
FirstMaximum(i) ==
    /\ i \in 1..Len(results)
    /\ ~IsNaN(results[i].final_test_ham_acc)
    /\ \A j \in 1..Len(results) :
          ~IsNaN(results[j].final_test_ham_acc) =>
              /\ results[j].final_test_ham_acc.n <= results[i].final_test_ham_acc.n
              /\ j < i => results[j].final_test_ham_acc.n < results[i].final_test_ham_acc.n

\* C25: when the selection cell runs to its end, the Best Configuration is the row that
\* was run first among the valid rows sharing the maximum final_test_ham_acc, the rows
\* being in the order of the sweep (triv_aug before the baseline, then product order).
C25_TieGoesToFirstRun ==
    [][SelectStep =>
        \E i \in 1..Len(results) :
            /\ FirstMaximum(i)
            /\ Carries(best_params'[1], results[i])
            /\ \A j \in 1..Len(results) :
                  (j # i /\ results[j].final_test_ham_acc = results[i].final_test_ham_acc) =>
                      /\ i < j
                      /\ ~Carries(best_params'[1], results[j])
                      /\ LexLess(Key(results[i]), Key(results[j]))]_vars

\* a selection made over a sweep whose first and last rows share the maximum
C25_Witness ==
    /\ pc \in {"load", "retrain"} /\ ~halted /\ ~supplied /\ ~resumed
    /\ best_params # None
    /\ Len(results) >= 3
    /\ FirstMaximum(1)
    /\ results[Len(results)].final_test_ham_acc = results[1].final_test_ham_acc
    /\ results[2].final_test_ham_acc.n < results[1].final_test_ham_acc.n
    /\ Carries(best_params[1], results[1])

\* the retrain call was made and returned
RetrainCompleted ==
    /\ retrained # None
    /\ train_calls # <<>>
    /\ Last(train_calls).kind = "retrain" /\ Last(train_calls).status = "done"
    /\ CellIndex(nb, pc) > CellIndex(nb, "retrain")

\* C26: every train() call, of a grid trial or of the retrain, is given the validation
\* split to evaluate on, so every row the selection reads holds validation metrics; the
\* test split is given to test_step only, and in a run that nobody continued by hand
\* only after the retrain call has returned.
C26_TestSplitHeldOut ==
    /\ \A i \in 1..Len(evaluated) :
          /\ evaluated[i].by = "train" => evaluated[i].data = "val"
          /\ evaluated[i].data = "test" =>
                /\ evaluated[i].by = "test_step"
                /\ i = Len(evaluated)
                /\ ~resumed => RetrainCompleted
    /\ Len(train_calls) = Cardinality({i \in 1..Len(evaluated) : evaluated[i].by = "train"})
    /\ \A i \in 1..Len(train_calls) : evaluated[i].by = "train"
    /\ ~resumed => Cardinality({i \in 1..Len(results) : ~AllMetricsNaN(results[i])}) <= Len(train_calls)

\* test_step was given the test split after a sweep, a selection and a retrain
C26_Witness ==
    /\ ~resumed /\ ~supplied
    /\ test_file # None
    /\ Len(evaluated) >= 3
    /\ Last(evaluated) = [by |-> "test_step", data |-> "test"]
    /\ evaluated[Len(evaluated) - 1] = [by |-> "train", data |-> "val"]
    /\ RetrainCompleted

\* C27 as stated: at most one SummaryWriter is open at any time, the one of the grid
\* point being trained, and once the loop cell of a run that nobody continued by hand
\* is over none is open.
C27_OneWriterAtATime ==
    /\ writers_open <= 1
    /\ (LoopOver /\ ~halted /\ ~resumed) => writers_open = 0

(***************************************************************************)
(* CustomImageDataset                                                      *)
(***************************************************************************)
\* __init__: the dataset keeps the two sequences it is given
CustomImageDataset(imgs, labs) == [images |-> imgs, labels |-> labs]

\* a variant of __getitem__ that reads the label one place further on
getitem_shifted(ds, idx) ==
    [Image |-> ds.images[idx + 1], Label |-> ds.labels[((idx + 1) % Len(ds.labels)) + 1]]

\* __getitem__(idx), idx counted from 0: the transform changes the pixels of the image,
\* not which image it is
getitem(ds, idx) == [Image |-> ds.images[idx + 1], Label |-> ds.labels[idx + 1]]

\* train_data, val_data and test_data of the dataset cells
SplitDatasets ==
    <<CustomImageDataset(X_train, y_train), CustomImageDataset(X_val, y_val),
      CustomImageDataset(X_test, y_test)>>

\* the places (dataset, idx) at which the datasets return the image of kept row i
PlacesOf(i) ==
    {pl \in {<<d, idx>> : d \in 1..3, idx \in 0..(Len(images) - 1)} :
        /\ pl[2] < Len(SplitDatasets[pl[1]].images)
        /\ getitem(SplitDatasets[pl[1]], pl[2]).Image = images[i]}

\* C28: once both splits are made, every sample a dataset returns holds the image and
\* the label vector of one and the same kept row (entry i of images and of labels are
\* those of kept row i), and every kept row is returned by exactly one of the three
\* datasets at exactly one index.
C28_PairingPreserved ==
    split_pc = "done" =>
        /\ \A d \in 1..3 :
              /\ Len(SplitDatasets[d].images) = Len(SplitDatasets[d].labels)
              /\ \A idx \in 0..(Len(SplitDatasets[d].images) - 1) :
                    \E i \in 1..Len(images) :
                        /\ getitem(SplitDatasets[d], idx).Image = images[i]
                        /\ getitem(SplitDatasets[d], idx).Label = labels[i]
        /\ \A i \in 1..Len(images) : Cardinality(PlacesOf(i)) = 1

\* twelve kept rows: eight in the training set, two in each of the other two
C28_Witness ==
    /\ split_pc = "done"
    /\ Len(images) = 12
    /\ Len(X_train) = 8 /\ Len(X_val) = 2 /\ Len(X_test) = 2
    /\ getitem(SplitDatasets[1], 7).Image = getitem(SplitDatasets[1], 7).Label
    /\ getitem(SplitDatasets[1], 0).Label # getitem(SplitDatasets[1], 7).Label

\* the three split sequences hold at least one row each
SplitsNonEmpty == Len(X_train) >= 1 /\ Len(X_val) >= 1 /\ Len(X_test) >= 1

\* n is the least whole number that is at least total/den
IsCeil(n, total, den) == n * den >= total /\ (n - 1) * den < total

\* C29 as stated: the split step never fails, whatever the number of kept rows (with
\* fewer than 10 it still returns three sequences), and with 10 rows or more its three
\* sequences are all non-empty.
C29_SplitNeverFails ==
    /\ split_pc # "error"
    /\ (split_pc = "done" /\ Len(images) >= 10) => SplitsNonEmpty

\* C29 amended: the test sequence has ceil(N/10) rows and the validation sequence
\* ceil((N - test)/9); with 3 rows or more, so with 10 or more, both calls return and
\* the three sequences are all non-empty; with fewer than 3 rows a call raises
\* ValueError and the step returns nothing.
C29_SplitReturnsFromThreeRows ==
    /\ split_pc = "done" =>
          /\ Len(images) >= 3
          /\ SplitsNonEmpty
          /\ IsCeil(Len(X_test), Len(images), TestDen)
          /\ IsCeil(Len(X_val), Len(images) - Len(X_test), ValDen)
    /\ split_pc = "error" =>
          /\ Len(images) <= 2
          /\ X_train = <<>> /\ X_val = <<>>
    /\ split_pc = "first" => Len(images) >= 2 /\ Len(X_test) >= 1 /\ Len(X_train_val) >= 1

\* ten kept rows were split into 8, 1 and 1
C29_Witness ==
    /\ split_pc = "done"
    /\ Len(images) = 10
    /\ Len(X_train) = 8 /\ Len(X_val) = 1 /\ Len(X_test) = 1
====
